---- MODULE Spec2Model ----
(***************************************************************************)
(* pydb front end: tokenizer.rs (tokenize, handle_indentation,             *)
(* clean_tokens), parser.rs (Parser) and main.rs (the pipeline             *)
(* tokenize -> Parser::new -> parse).                                      *)
(*                                                                         *)
(* A source text is a sequence of one-character strings.  A token is a     *)
(* record [type, value]: type is the name of the Token variant, value the  *)
(* payload of a literal-carrying variant (a sequence of characters) and    *)
(* <<>> otherwise.  current_token and pos are 0-based as in the code.      *)
(*                                                                         *)
(* Integer and Float payloads are kept as canonical decimal digits: the    *)
(* value of an i64 exceeds the integers of the model checker.  The         *)
(* characters are ASCII: char::is_numeric and char::is_alphabetic are      *)
(* Digits and Letters.  Parser::parse_function_call_expression is never    *)
(* called by the code and has no action here.  A panic ends the process:   *)
(* phase = "panic" has no successor.                                       *)
(***************************************************************************)
EXTENDS Integers, Sequences, FiniteSets, TLC

\* ------------------------------------------------------------------ bounds
\* longest text drawn exhaustively over LexChars
MaxLen == 3
\* most lines of a generated block program (if headers and statements)
MaxLines == 5
\* most parameters of a generated function definition
MaxParams == 2
\* most statement lines of a generated flat program
MaxStmts == 2
\* longest token sequence given to clean_tokens
MaxToks == 4
\* most tokens before the final EOF of a token sequence drawn exhaustively for parse
MaxParseToks == 3
\* most lines of a text whose lines are indented by any of IndentRuns
MaxIndentLines == 3

VARIABLES
    input,          \* main: the file contents given to tokenize
    pos,            \* tokenize: characters consumed from chars
    tokens,         \* tokenize: Vec<Token> built so far / returned to main
    indent_stack,   \* tokenize: indent_stack
    at_line_start,  \* tokenize: at_line_start
    phase,          \* position of main: "tokenize", "tokenized", "parse",
                    \*   "done" (parse returned), "panic" (process aborted);
                    \*   of a clean_tokens call: "clean", "cleaned"
    panic_msg,      \* message of the panic that aborted the process
    ptokens,        \* Parser.tokens
    current_token,  \* Parser.current_token
    stack,          \* call stack of the parser's methods, innermost last
    ret,            \* what the innermost call just returned: <<statement>>, or the
                    \*   statements of a body or of an argument list
    program,        \* <<p>>: the Program returned by parse
    clean_in,       \* clean_tokens: the argument tokens
    clean_idx,      \* clean_tokens: tokens of the argument iterated so far
    cleaned_tokens, \* clean_tokens: cleaned_tokens
    prev_token,     \* clean_tokens: prev_token (<<>> is None)
    indent_level    \* clean_tokens: indent_level

lexvars == <<input, pos, tokens, indent_stack, at_line_start>>
parvars == <<ptokens, current_token, stack, ret, program>>
clnvars == <<clean_in, clean_idx, cleaned_tokens, prev_token, indent_level>>
vars == <<lexvars, phase, panic_msg, parvars, clnvars>>

\* ------------------------------------------------------------ characters
Letters == {"a", "b", "c", "d", "e", "f", "g", "h", "i", "j", "k", "l", "m",
            "n", "o", "p", "q", "r", "s", "t", "u", "v", "w", "x", "y", "z",
            "N", "T", "F"}
Digits == {"0", "1", "2", "3", "4", "5", "6", "7", "8", "9"}
\* Letters are the characters of the model with char::is_alphabetic, Digits those
\* with char::is_numeric

\* ---------------------------------------------------------------- tokens
Tk(t) == [type |-> t, value |-> <<>>]
TkV(t, v) == [type |-> t, value |-> v]

Newline == Tk("Newline")
Indent == Tk("Indent")
Dedent == Tk("Dedent")
EOF == Tk("EOF")
LParen == Tk("LParen")
RParen == Tk("RParen")
Comma == Tk("Comma")
Colon == Tk("Colon")
Equals == Tk("Equals")
IdentifierTok(name) == TkV("Identifier", name)

\* ------------------------------------------------------- number parsing
\* i64::MAX = 9223372036854775807, as decimal digits
I64MaxDigits == <<"9","2","2","3","3","7","2","0","3","6","8","5","4","7","7","5","8","0","7">>

DigitVal(c) == CASE c = "0" -> 0 [] c = "1" -> 1 [] c = "2" -> 2 [] c = "3" -> 3
                 [] c = "4" -> 4 [] c = "5" -> 5 [] c = "6" -> 6 [] c = "7" -> 7
                 [] c = "8" -> 8 [] c = "9" -> 9

\* s without its leading zeros (one digit is always kept)
StripZeros(s) ==
    LET nz == {i \in 1..Len(s) : s[i] # "0"}
        first == IF nz = {} THEN Len(s) ELSE CHOOSE i \in nz : \A j \in nz : i <= j
    IN SubSeq(s, first, Len(s))

\* decimal digit strings of equal length: a <= b
DigitsLE(a, b) ==
    \/ a = b
    \/ \E i \in 1..Len(a) : /\ DigitVal(a[i]) < DigitVal(b[i])
                            /\ \A j \in 1..(i - 1) : a[j] = b[j]

\* str::parse::<i64> on a run of ASCII digits: Err on overflow, else the value
\* (kept as its canonical decimal digits, the model's i64)
ParseI64(number) ==
    LET d == StripZeros(number)
    IN IF Len(d) < Len(I64MaxDigits)
          \/ (Len(d) = Len(I64MaxDigits) /\ DigitsLE(d, I64MaxDigits))
       THEN [ok |-> TRUE, value |-> d]
       ELSE [ok |-> FALSE, value |-> <<>>]

\* str::parse::<f64> on a run of digits and '.' that starts with a digit: Err
\* when there is more than one '.', else the value (kept as its digits with the
\* leading zeros of the integer part and trailing zeros of the fraction removed)
ParseF64(number) ==
    LET dots == {i \in 1..Len(number) : number[i] = "."}
    IN IF Cardinality(dots) # 1
       THEN [ok |-> FALSE, value |-> <<>>]
       ELSE LET d == CHOOSE i \in dots : TRUE
                ip == StripZeros(SubSeq(number, 1, d - 1))
                fr == SubSeq(number, d + 1, Len(number))
                nzf == {i \in 1..Len(fr) : fr[i] # "0"}
                last == IF nzf = {} THEN 0 ELSE CHOOSE i \in nzf : \A j \in nzf : j <= i
            IN [ok |-> TRUE, value |-> ip \o <<".">> \o SubSeq(fr, 1, last)]

\* ----------------------------------------------------------- tokenizer
\* the panic of Result::unwrap (consume_number's number.parse().unwrap())
ResultUnwrapMsg == "called Result::unwrap() on an Err value"
\* the panic of Option::unwrap (the parser's tokens.get(..).unwrap())
OptionUnwrapMsg == "called Option::unwrap() on a None value"

\* chars.peek() after p characters were consumed; "" is None
Peek(p) == IF p < Len(input) THEN input[p + 1] ELSE ""

\* the position reached by consuming characters from p while they are in S
RunEnd(p, S) ==
    CHOOSE q \in p..Len(input) :
        /\ \A i \in (p + 1)..q : input[i] \in S
        /\ (q = Len(input) \/ input[q + 1] \notin S)

\* the text consumed between positions p and q
Text(p, q) == SubSeq(input, p + 1, q)

RECURSIVE SumWidth(_)
\* handle_indentation's count: a space weighs 1, a tab 4
SumWidth(s) == IF s = <<>> THEN 0
               ELSE (IF Head(s) = " " THEN 1 ELSE 4) + SumWidth(Tail(s))

RECURSIVE PopTo(_, _, _)
\* handle_indentation's while loop: pop and emit Dedent while top > level
PopTo(stk, toks, level) ==
    IF stk[Len(stk)] > level
    THEN PopTo(SubSeq(stk, 1, Len(stk) - 1), Append(toks, Dedent), level)
    ELSE [indent_stack |-> stk, tokens |-> toks]

\* HandleIndentation emitting one Dedent however many levels it pops
HandleIndentation_OneDedent(p, stk, toks) ==
    LET q == RunEnd(p, {" ", "\t"})
        level == SumWidth(Text(p, q))
        current_level == stk[Len(stk)]
    IN IF level > current_level
       THEN [pos |-> q, indent_stack |-> Append(stk, level),
             tokens |-> Append(toks, Indent)]
       ELSE IF level < current_level
            THEN [pos |-> q, indent_stack |-> PopTo(stk, toks, level).indent_stack,
                  tokens |-> Append(toks, Dedent)]
            ELSE [pos |-> q, indent_stack |-> stk, tokens |-> toks]

\* HandleIndentation pushing the measured width on a decrease too, without a pop
HandleIndentation_PushOnChange(p, stk, toks) ==
    LET q == RunEnd(p, {" ", "\t"})
        level == SumWidth(Text(p, q))
        current_level == stk[Len(stk)]
    IN IF level # current_level
       THEN [pos |-> q, indent_stack |-> Append(stk, level),
             tokens |-> Append(toks, Indent)]
       ELSE [pos |-> q, indent_stack |-> stk, tokens |-> toks]

\* handle_indentation at position p: measure the line's width, then push and emit
\* Indent, or pop and emit Dedents
HandleIndentation(p, stk, toks) ==
    LET q == RunEnd(p, {" ", "\t"})
        level == SumWidth(Text(p, q))
        current_level == stk[Len(stk)]
    IN IF level > current_level
       THEN [pos |-> q, indent_stack |-> Append(stk, level),
             tokens |-> Append(toks, Indent)]
       ELSE IF level < current_level
            THEN [pos |-> q] @@ PopTo(stk, toks, level)
            ELSE [pos |-> q, indent_stack |-> stk, tokens |-> toks]

\* the result of one match arm: the position reached, the tokens pushed, whether
\* at_line_start is set, and the panic message ("" when the arm returns)
Arm(q, toks, nl, msg) == [pos |-> q, toks |-> toks, newline |-> nl, panic |-> msg]

\* an arm that consumes ch and then a second character `second` if it follows
TwoChar(p, second, double, single) ==
    IF Peek(p + 1) = second THEN Arm(p + 2, double, FALSE, "")
    ELSE Arm(p + 1, single, FALSE, "")

ConsumeStringLiteral(p) ==
    LET quote == input[p + 1]
        closing == {i \in (p + 2)..Len(input) : input[i] = quote}
        q == IF closing = {} THEN Len(input)
             ELSE CHOOSE i \in closing : \A j \in closing : i <= j
        literal == IF closing = {} THEN Text(p + 1, q) ELSE Text(p + 1, q - 1)
    IN Arm(q, <<TkV("StringLiteral", literal)>>, FALSE, "")

ConsumeComment(p) ==
    LET stops == {i \in (p + 2)..Len(input) : input[i] = "\n"}
        q == IF stops = {} THEN Len(input)
             ELSE (CHOOSE i \in stops : \A j \in stops : i <= j) - 1
    IN Arm(q, <<TkV("Comment", Text(p + 1, q))>>, FALSE, "")

ConsumeNumber(p) ==
    LET q == RunEnd(p, Digits \cup {"."})
        number == Text(p, q)
        r == IF \E i \in 1..Len(number) : number[i] = "."
             THEN ParseF64(number) ELSE ParseI64(number)
        t == IF \E i \in 1..Len(number) : number[i] = "." THEN "Float" ELSE "Integer"
    IN IF r.ok THEN Arm(q, <<TkV(t, r.value)>>, FALSE, "")
       ELSE Arm(q, <<>>, FALSE, ResultUnwrapMsg)

KeywordType(id) ==
    CASE id = <<"d","e","f">> -> "DefKeyword"
      [] id = <<"r","e","t","u","r","n">> -> "ReturnKeyword"
      [] id = <<"i","f">> -> "IfKeyword"
      [] id = <<"e","l","s","e">> -> "ElseKeyword"
      [] id = <<"N","o","n","e">> -> "NoneLiteral"
      [] id = <<"T","r","u","e">> -> "BooleanLiteral"
      [] id = <<"F","a","l","s","e">> -> "BooleanLiteral"
      [] id = <<"e","l","i","f">> -> "ElifKeyword"
      [] id = <<"f","o","r">> -> "ForKeyword"
      [] id = <<"w","h","i","l","e">> -> "WhileKeyword"
      [] id = <<"b","r","e","a","k">> -> "BreakKeyword"
      [] id = <<"c","o","n","t","i","n","u","e">> -> "ContinueKeyword"
      [] id = <<"p","a","s","s">> -> "PassKeyword"
      [] id = <<"i","m","p","o","r","t">> -> "ImportKeyword"
      [] id = <<"f","r","o","m">> -> "FromKeyword"
      [] id = <<"a","s">> -> "AsKeyword"
      [] id = <<"t","r","y">> -> "TryKeyword"
      [] id = <<"e","x","c","e","p","t">> -> "ExceptKeyword"
      [] id = <<"f","i","n","a","l","l","y">> -> "FinallyKeyword"
      [] id = <<"r","a","i","s","e">> -> "RaiseKeyword"
      [] id = <<"c","l","a","s","s">> -> "ClassKeyword"
      [] id = <<"w","i","t","h">> -> "WithKeyword"
      [] id = <<"y","i","e","l","d">> -> "YieldKeyword"
      [] id = <<"g","l","o","b","a","l">> -> "GlobalKeyword"
      [] id = <<"l","a","m","b","d","a">> -> "LambdaKeyword"
      [] id = <<"a","s","y","n","c">> -> "AsyncKeyword"
      [] id = <<"a","w","a","i","t">> -> "AwaitKeyword"
      [] id = <<"a","n","d">> -> "And"
      [] id = <<"o","r">> -> "Or"
      [] id = <<"n","o","t">> -> "Not"
      [] id = <<"i","n">> -> "In"
      [] id = <<"i","s">> -> "Is"
      [] id = <<"i","s"," ","n","o","t">> -> "IsNot"
      [] OTHER -> "Identifier"

ConsumeIdentifierOrKeyword(p) ==
    LET q == RunEnd(p, Letters \cup Digits \cup {"_"})
        identifier == Text(p, q)
        t == KeywordType(identifier)
    IN Arm(q, <<IF t \in {"Identifier", "BooleanLiteral"}
                THEN TkV(t, identifier) ELSE Tk(t)>>, FALSE, "")

\* the match on ch in tokenize's loop, with p characters consumed before it
Scan(ch, p) ==
    CASE ch \in {" ", "\t"} -> Arm(RunEnd(p, {" ", "\t"}), <<>>, FALSE, "")
      [] ch \in {"\n", "\r"} -> Arm(p + 1, <<Newline>>, TRUE, "")
      [] ch = "(" -> Arm(p + 1, <<LParen>>, FALSE, "")
      [] ch = ")" -> Arm(p + 1, <<RParen>>, FALSE, "")
      [] ch = "{" -> Arm(p + 1, <<Tk("LBrace")>>, FALSE, "")
      [] ch = "}" -> Arm(p + 1, <<Tk("RBrace")>>, FALSE, "")
      [] ch = "[" -> Arm(p + 1, <<Tk("LBracket")>>, FALSE, "")
      [] ch = "]" -> Arm(p + 1, <<Tk("RBracket")>>, FALSE, "")
      [] ch = "+" -> Arm(p + 1, <<Tk("Plus")>>, FALSE, "")
      [] ch = "-" -> TwoChar(p, ">", <<Tk("Arrow")>>, <<Tk("Minus")>>)
      [] ch = "*" -> TwoChar(p, "*", <<Tk("DoubleStar")>>, <<Tk("Star")>>)
      [] ch = "/" -> TwoChar(p, "/", <<Tk("DoubleSlash")>>, <<Tk("Slash")>>)
      [] ch = "=" -> TwoChar(p, "=", <<Tk("DoubleEquals")>>, <<Equals>>)
      [] ch = "!" -> TwoChar(p, "=", <<Tk("NotEquals")>>, <<>>)
      [] ch = "<" -> TwoChar(p, "=", <<Tk("LessThanOrEqual")>>, <<Tk("LessThan")>>)
      [] ch = ">" -> TwoChar(p, "=", <<Tk("GreaterThanOrEqual")>>, <<Tk("GreaterThan")>>)
      [] ch \in {"'", "\""} -> ConsumeStringLiteral(p)
      [] ch = "#" -> ConsumeComment(p)
      [] ch = ";" -> Arm(p + 1, <<Tk("Semicolon")>>, FALSE, "")
      [] ch = ":" -> Arm(p + 1, <<Colon>>, FALSE, "")
      [] ch = "," -> Arm(p + 1, <<Comma>>, FALSE, "")
      [] ch = "%" -> Arm(p + 1, <<Tk("Percent")>>, FALSE, "")
      [] ch \in Digits -> ConsumeNumber(p)
      [] ch \in Letters \cup {"_"} -> ConsumeIdentifierOrKeyword(p)
      [] OTHER -> Arm(p + 1, <<>>, FALSE, "")

\* ---------------------------------------------------------- source texts
\* the characters of the texts drawn exhaustively
LexChars == {" ", "\t", "\n", "1", ".", "a", "(", ")"}
ShortTexts == UNION {[1..n -> LexChars] : n \in 0..MaxLen}

\* the identifier written on line i of a generated program
Names == <<"a", "b", "c", "d", "e", "g", "h", "j", "k", "m">>
\* the parameters of a generated function definition
ParamNames == <<"p", "q", "r", "s", "t">>

Spaces(w) == [i \in 1..w |-> " "]

\* Block programs: lines [kind, width] of an if header "if (a):" or a statement
\* "a", one space of indentation per level; the line after a header is one level
\* deeper, the line after a statement is at the same or an enclosing level.
NextWidths(p) == LET l == p[Len(p)]
                 IN IF l.kind = "if" THEN {l.width + 1} ELSE 0..l.width

RECURSIVE BlockLines(_)
BlockLines(n) ==
    IF n = 1 THEN {<<[kind |-> k, width |-> 0]>> : k \in {"stmt", "if"}}
    ELSE UNION {{Append(p, [kind |-> k, width |-> w]) :
                    k \in {"stmt", "if"}, w \in NextWidths(p)} : p \in BlockLines(n - 1)}

BlockPrograms == UNION {BlockLines(n) : n \in 1..MaxLines}

RenderLine(l, i) ==
    Spaces(l.width) \o (IF l.kind = "if"
                        THEN <<"i", "f", " ", "(", Names[i], ")", ":">>
                        ELSE <<Names[i]>>)

RECURSIVE RenderBlock(_, _)
\* lines i..Len(p) of block program p, each terminated by a newline
RenderBlock(p, i) ==
    IF i > Len(p) THEN <<>>
    ELSE RenderLine(p[i], i) \o <<"\n">> \o RenderBlock(p, i + 1)

\* a rendered text without its final newline
Chop(t) == SubSeq(t, 1, Len(t) - 1)

BlockTexts == UNION {{RenderBlock(p, 1), Chop(RenderBlock(p, 1))} : p \in BlockPrograms}

\* Flat programs: statements at width 0, one per line: an identifier "a", an
\* assignment "a = 1" or a sum "1 + 2"
StmtKinds == {"ident", "assign", "sum"}
FlatPrograms == UNION {[1..n -> StmtKinds] : n \in 1..MaxStmts}

RenderStmt(k, i) ==
    CASE k = "ident" -> <<Names[i]>>
      [] k = "assign" -> <<Names[i], " ", "=", " ", "1">>
      [] k = "sum" -> <<"1", " ", "+", " ", "2">>

RECURSIVE RenderFlat(_, _)
RenderFlat(p, i) ==
    IF i > Len(p) THEN <<>>
    ELSE RenderStmt(p[i], i) \o <<"\n">> \o RenderFlat(p, i + 1)

FlatTexts == UNION {{RenderFlat(p, 1), Chop(RenderFlat(p, 1))} : p \in FlatPrograms}

\* Function definitions "def f(p, q):" with n parameters and the body " x"
RECURSIVE RenderParams(_, _)
RenderParams(n, i) ==
    IF i > n THEN <<>>
    ELSE (IF i > 1 THEN <<",", " ">> ELSE <<>>) \o <<ParamNames[i]>> \o RenderParams(n, i + 1)

RenderDef(n) ==
    <<"d", "e", "f", " ", "f", "(">> \o RenderParams(n, 1) \o <<")", ":", "\n", " ", "x", "\n">>

DefTexts == UNION {{RenderDef(n), Chop(RenderDef(n))} : n \in 0..MaxParams}

\* Texts with a wrong or missing token, calls and numbers at the limits of i64/f64
MiscTexts == {
    <<"i", "f", " ", "[", "a", ")", ":", "\n", " ", "x">>,
    <<"i", "f", " ", "a", ")", ":", "\n", " ", "x">>,
    <<"i", "f", " ", "(", "a", ":", "\n", " ", "x">>,
    <<"(", "1", " ", "+", " ", "2">>,
    <<"(", "1", " ", "+", " ", "2", "\n">>,
    <<"(", "1", " ", "+", " ", "2", " ", "3", ")">>,
    <<"(", "1", " ", "+", " ", "2", ")">>,
    <<"(", "1", " ", "+", " ", "2", ")", " ", "*", " ", "3">>,
    <<"f", "(", "1", ",", " ", "a", ")">>,
    <<"f", "(", "1", ",", " ", "(", "a", ")">>,
    <<"a", " ", "=", " ", "(", "b">>,
    <<"1", " ", "<", " ", "2", " ", "=", "=", " ", "3", " ", "/", " ", "4">>,
    I64MaxDigits,
    Chop(I64MaxDigits) \o <<"8">>,
    <<"0">> \o I64MaxDigits,
    <<"1", ".", "5", "0">>,
    <<"1", ".", "2", ".", "3">>,
    <<"d", "e", "f", " ", "1">>,
    <<"d", "e", "f", " ", "f", "(", "1", ")", ":">>}

\* Expressions "x op1 y op2 z": the binary operators the tokenizer produces for the
\* parser's four levels, as written in a text
ExprOps == {<<"+">>, <<"-">>, <<"*">>, <<"/">>, <<"*", "*">>,
            <<"<">>, <<">">>, <<"<", "=">>, <<">", "=">>,
            <<"a", "n", "d">>, <<"o", "r">>, <<"=", "=">>, <<"!", "=">>}
\* the operands at the three positions: an integer literal or an identifier
ExprOperands == <<{<<"8">>, <<"x">>}, {<<"3">>, <<"y">>}, {<<"2">>, <<"z">>}>>

ExprPrograms == [a : ExprOperands[1], op1 : ExprOps,
                 b : ExprOperands[2], op2 : ExprOps, c : ExprOperands[3]]

RenderExpr(e) == e.a \o <<" ">> \o e.op1 \o <<" ">> \o e.b \o <<" ">> \o e.op2 \o <<" ">> \o e.c

ExprTexts == {RenderExpr(e) : e \in ExprPrograms}

\* Indented texts: lines "a", each after any run of spaces and tabs of IndentRuns
\* (widths 0, 1, 2, 4, 5), whatever the width of the line before
IndentRuns == {<<>>, <<" ">>, <<" ", " ">>, <<"\t">>, <<" ", "\t">>}
IndentPrograms == UNION {[1..n -> IndentRuns] : n \in 1..MaxIndentLines}

RECURSIVE RenderIndented(_, _)
RenderIndented(p, i) ==
    IF i > Len(p) THEN <<>>
    ELSE p[i] \o <<"a", "\n">> \o RenderIndented(p, i + 1)

IndentTexts == {RenderIndented(p, 1) : p \in IndentPrograms}

Inputs == ShortTexts \cup BlockTexts \cup FlatTexts \cup DefTexts \cup MiscTexts \cup ExprTexts
            \cup IndentTexts

\* ------------------------------------------------------------- tokenize
\* one iteration of tokenize's while loop
Tokenize ==
    /\ phase = "tokenize"
    /\ pos < Len(input)
    /\ LET ch == input[pos + 1]
           ind == IF at_line_start
                  THEN HandleIndentation(pos, indent_stack, tokens)
                  ELSE [pos |-> pos, indent_stack |-> indent_stack, tokens |-> tokens]
           arm == Scan(ch, ind.pos)
       IN /\ pos' = arm.pos
          /\ indent_stack' = ind.indent_stack
          /\ tokens' = ind.tokens \o arm.toks
          /\ at_line_start' = arm.newline
          /\ phase' = IF arm.panic = "" THEN phase ELSE "panic"
          /\ panic_msg' = arm.panic
    /\ UNCHANGED <<input, parvars, clnvars>>

\* TokenizeReturn without the push of EOF
TokenizeReturn_NoEOF ==
    /\ phase = "tokenize"
    /\ pos = Len(input)
    /\ phase' = "tokenized"
    /\ UNCHANGED <<input, pos, tokens, indent_stack, at_line_start, panic_msg,
                   parvars, clnvars>>

\* the end of tokenize: push EOF and return the tokens to main
TokenizeReturn ==
    /\ phase = "tokenize"
    /\ pos = Len(input)
    /\ tokens' = Append(tokens, EOF)
    /\ phase' = "tokenized"
    /\ UNCHANGED <<input, pos, indent_stack, at_line_start, panic_msg, parvars, clnvars>>

\* ------------------------------------------------------------------ AST
\* struct Identifier
Ident(name) == [name |-> name]
\* Statement::ExpressionStatement(Expression::Literal(Literal::Int / Float / String))
LiteralStmt(k, v) == [kind |-> "ExpressionStatement",
                      expr |-> [kind |-> "Literal", lit |-> [kind |-> k, value |-> v]]]
\* Statement::ExpressionStatement(Expression::Identifier)
IdentifierStmt(name) == [kind |-> "ExpressionStatement",
                         expr |-> [kind |-> "Identifier", id |-> Ident(name)]]
\* Statement::ExpressionStatement(Expression::BinaryExpression)
BinaryStmt(left, op, right) ==
    [kind |-> "ExpressionStatement",
     expr |-> [kind |-> "BinaryExpression", left |-> left, op |-> op, right |-> right]]
\* Statement::ExpressionStatement(Expression::FunctionCallExpression)
CallStmt(name, args) ==
    [kind |-> "ExpressionStatement",
     expr |-> [kind |-> "FunctionCallExpression", id |-> Ident(name), args |-> args]]
\* Statement::ExpressionStatement(Expression::AssignmentExpression)
AssignStmt(name, value) ==
    [kind |-> "ExpressionStatement",
     expr |-> [kind |-> "AssignmentExpression", id |-> Ident(name), value |-> value]]
IfStatement(test, body) == [kind |-> "IfStatement", test |-> test, body |-> body]
FunctionDefinitionStatement(id, params, body) ==
    [kind |-> "FunctionDefinitionStatement", id |-> id, params |-> params, body |-> body]
Program(body) == [body |-> body]

\* --------------------------------------------------------------- Parser
\* The parser's methods run on a call stack of frames [fn, pc, locals...]: pc
\* names the call the frame waits in ("entry": not started).  One step runs the
\* innermost frame up to its next call, its return, its panic, or the end of one
\* iteration of a loop that makes no call.  A step's outcome:
Calls(frame, callee, c) == [act |-> "call", frame |-> frame, callee |-> callee, cur |-> c]
Returns(v, c) == [act |-> "return", value |-> <<v>>, cur |-> c]
\* a return of a Vec<Box<Statement>>
ReturnsVec(vs, c) == [act |-> "return", value |-> vs, cur |-> c]
Continues(frame, c) == [act |-> "continue", frame |-> frame, cur |-> c]
Panics(msg, c) == [act |-> "panic", msg |-> msg, cur |-> c]

Frame(fn) == [fn |-> fn, pc |-> "entry"]

\* self.tokens.get(i) is Some
HasTok(i) == i < Len(ptokens)
\* self.tokens.get(i).unwrap(), for HasTok(i)
TokAt(i) == ptokens[i + 1]

NotEof(c) == ~(HasTok(c) /\ TokAt(c) = EOF)

\* Expect without its comparison: the token is consumed whatever it is
Expect_NoCheck(c, expected, error_message, then) ==
    IF ~HasTok(c) THEN Panics(OptionUnwrapMsg, c) ELSE then

\* expect at cursor c: the outcome `then` when the token is `expected`
Expect(c, expected, error_message, then) ==
    IF ~HasTok(c) THEN Panics(OptionUnwrapMsg, c)
    ELSE IF TokAt(c) # expected THEN Panics(error_message, c + 1)
    ELSE then

\* ParseLoop returning the Program after its first statement
ParseLoop_OneStatement(f, body, c) ==
    IF NotEof(c) /\ body = <<>>
    THEN Calls([f EXCEPT !.pc = "push", !.body = body], "parse_block_statement", c)
    ELSE Returns(Program(body), c)

\* parse: the while loop, with `body` collected so far
ParseLoop(f, body, c) ==
    IF NotEof(c)
    THEN Calls([f EXCEPT !.pc = "push", !.body = body], "parse_block_statement", c)
    ELSE Returns(Program(body), c)

StepParse(f, c, r) ==
    IF f.pc = "entry" THEN ParseLoop(f @@ [body |-> <<>>], <<>>, c)
    ELSE ParseLoop(f, Append(f.body, r[1]), c)

StepParseIfStatement(f, c, r) ==
    CASE f.pc = "entry" ->
            IF ~HasTok(c) THEN Panics(OptionUnwrapMsg, c + 1)
            ELSE IF ~HasTok(c + 1) THEN Panics(OptionUnwrapMsg, c + 2)
            ELSE Calls([f EXCEPT !.pc = "test"], "parse_expression", c + 2)
      [] f.pc = "test" ->
            Expect(c, RParen, "Missing closing parentheses in if statement",
              Expect(c + 1, Colon, "Expected : after if statement definition",
                Calls([fn |-> f.fn, pc |-> "body", test |-> r[1]],
                      "parse_block_statement_body", c + 2)))
      [] f.pc = "body" -> Returns(IfStatement(f.test, r), c)

RECURSIVE SkipDedents(_)
\* while *self.get_current_token() == Token::Dedent { self.advance(); }
\* the cursor reached, or -1 when get_current_token panics
SkipDedents(c) ==
    IF ~HasTok(c) THEN -1
    ELSE IF TokAt(c) = Dedent THEN SkipDedents(c + 1) ELSE c

\* StepParseBlockStatementBody leaving a Newline that no Dedent follows unconsumed
StepParseBlockStatementBody_NewlineKept(f, c, r) ==
    CASE f.pc = "entry" ->
            IF ~HasTok(c) THEN Panics(OptionUnwrapMsg, c + 1)
            ELSE IF ~HasTok(c + 1) THEN Panics(OptionUnwrapMsg, c + 2)
            ELSE Continues([fn |-> f.fn, pc |-> "loop", body |-> <<>>], c + 2)
      [] f.pc = "loop" ->
            IF ~HasTok(c) THEN Panics(OptionUnwrapMsg, c)
            ELSE IF TokAt(c) = EOF THEN ReturnsVec(f.body, c)
            ELSE IF TokAt(c) = Newline
                 THEN IF ~HasTok(c + 1) THEN Panics(OptionUnwrapMsg, c)
                      ELSE IF TokAt(c + 1) = Dedent
                           THEN IF SkipDedents(c + 1) = -1
                                THEN Panics(OptionUnwrapMsg, Len(ptokens))
                                ELSE ReturnsVec(f.body, SkipDedents(c + 1))
                           ELSE Continues(f, c)
                 ELSE Calls([f EXCEPT !.pc = "stmt"], "parse_block_statement", c)
      [] f.pc = "stmt" ->
            Continues([f EXCEPT !.pc = "loop", !.body = Append(f.body, r[1])], c)

StepParseBlockStatementBody(f, c, r) ==
    CASE f.pc = "entry" ->
            IF ~HasTok(c) THEN Panics(OptionUnwrapMsg, c + 1)
            ELSE IF ~HasTok(c + 1) THEN Panics(OptionUnwrapMsg, c + 2)
            ELSE Continues([fn |-> f.fn, pc |-> "loop", body |-> <<>>], c + 2)
      [] f.pc = "loop" ->
            IF ~HasTok(c) THEN Panics(OptionUnwrapMsg, c)
            ELSE IF TokAt(c) = EOF THEN ReturnsVec(f.body, c)
            ELSE IF TokAt(c) = Newline
                 THEN IF ~HasTok(c + 1) THEN Panics(OptionUnwrapMsg, c)
                      ELSE IF TokAt(c + 1) = Dedent
                           THEN IF SkipDedents(c + 1) = -1
                                THEN Panics(OptionUnwrapMsg, Len(ptokens))
                                ELSE ReturnsVec(f.body, SkipDedents(c + 1))
                           ELSE Continues(f, c + 1)
                 ELSE Calls([f EXCEPT !.pc = "stmt"], "parse_block_statement", c)
      [] f.pc = "stmt" ->
            Continues([f EXCEPT !.pc = "loop", !.body = Append(f.body, r[1])], c)

StepParseFunctionDefinitionStatement(f, c, r) ==
    CASE f.pc = "entry" ->
            IF ~HasTok(c) THEN Panics(OptionUnwrapMsg, c + 1)
            ELSE IF ~HasTok(c + 1) THEN Panics(OptionUnwrapMsg, c + 1)
            ELSE IF TokAt(c + 1).type # "Identifier"
                 THEN Panics("Expected function name after def", c + 1)
            ELSE IF ~HasTok(c + 2) THEN Panics(OptionUnwrapMsg, c + 3)
            ELSE IF ~HasTok(c + 4) THEN Panics(OptionUnwrapMsg, c + 3)
            ELSE LET g == [fn |-> f.fn, pc |-> "params",
                           function_name |-> Ident(TokAt(c + 1).value),
                           function_params |-> <<>>]
                 IN IF TokAt(c + 4) = RParen
                    THEN Calls([g EXCEPT !.pc = "body"], "parse_block_statement_body", c + 5)
                    ELSE Continues(g, c + 3)
      [] f.pc = "params" ->
            IF ~HasTok(c) THEN Panics(OptionUnwrapMsg, c + 1)
            ELSE IF TokAt(c).type = "Identifier"
                 THEN Continues([f EXCEPT !.function_params =
                                    Append(f.function_params, Ident(TokAt(c).value))], c + 1)
            ELSE IF TokAt(c) = Comma THEN Continues(f, c + 1)
            ELSE IF TokAt(c) = RParen
                 THEN IF ~HasTok(c + 1) THEN Panics(OptionUnwrapMsg, c + 2)
                      ELSE Calls([f EXCEPT !.pc = "body"], "parse_block_statement_body", c + 2)
            ELSE Panics("error", c + 1)
      [] f.pc = "body" ->
            Returns(FunctionDefinitionStatement(f.function_name, f.function_params, r), c)

StepParseBlockStatement(f, c, r) ==
    CASE f.pc = "entry" ->
            IF ~HasTok(c) THEN Panics(OptionUnwrapMsg, c)
            ELSE IF TokAt(c) = Tk("IfKeyword")
                 THEN Calls([f EXCEPT !.pc = "ret"], "parse_if_statement", c)
            ELSE IF TokAt(c) = Tk("DefKeyword")
                 THEN Calls([f EXCEPT !.pc = "ret"], "parse_function_definition_statement", c)
            ELSE Calls([f EXCEPT !.pc = "ret"], "parse_statement", c)
      [] f.pc = "ret" -> Returns(r[1], c)

StepParseStatement(f, c, r) ==
    CASE f.pc = "entry" -> Calls([f EXCEPT !.pc = "ret"], "parse_expression", c)
      [] f.pc = "ret" -> Returns(r[1], c)

StepParseExpression(f, c, r) ==
    CASE f.pc = "entry" -> Calls([f EXCEPT !.pc = "ret"], "parse_logical_expression", c)
      [] f.pc = "ret" -> Returns(r[1], c)

StepParseFunctionArguments(f, c, r) ==
    CASE f.pc = "entry" ->
            IF ~HasTok(c) THEN Panics(OptionUnwrapMsg, c)
            ELSE IF TokAt(c) = RParen THEN ReturnsVec(<<>>, c + 1)
            ELSE Calls([fn |-> f.fn, pc |-> "arg", arguments |-> <<>>], "parse_expression", c)
      [] f.pc = "arg" ->
            IF ~HasTok(c) THEN Panics(OptionUnwrapMsg, c)
            ELSE LET arguments == Append(f.arguments, r[1])
                     c1 == IF TokAt(c) = Comma THEN c + 1 ELSE c
                 IN IF ~HasTok(c1) THEN Panics(OptionUnwrapMsg, c1)
                    ELSE IF TokAt(c1) = RParen THEN ReturnsVec(arguments, c1 + 1)
                    ELSE Calls([f EXCEPT !.arguments = arguments], "parse_expression", c1)

\* BinaryLoop parsing the right operand with the level's own method
BinaryLoop_RightRecursive(f, left, c, while, ops, next) ==
    IF ~HasTok(c) THEN Panics(OptionUnwrapMsg, c)
    ELSE IF TokAt(c).type \in while
         THEN IF TokAt(c).type \in DOMAIN ops
              THEN Calls([fn |-> f.fn, pc |-> "right", left |-> left,
                          operator |-> ops[TokAt(c).type]], f.fn, c + 1)
              ELSE Panics("Invalid operator", c + 1)
         ELSE Returns(left, c)

\* The loop of a binary-operator level: `while` holds the token types of the loop
\* condition, `ops` is the match on the advanced token (a token type it lacks
\* reaches panic!("Invalid operator")), `next` the method of the next level.
BinaryLoop(f, left, c, while, ops, next) ==
    IF ~HasTok(c) THEN Panics(OptionUnwrapMsg, c)
    ELSE IF TokAt(c).type \in while
         THEN IF TokAt(c).type \in DOMAIN ops
              THEN Calls([fn |-> f.fn, pc |-> "right", left |-> left,
                          operator |-> ops[TokAt(c).type]], next, c + 1)
              ELSE Panics("Invalid operator", c + 1)
         ELSE Returns(left, c)

BinaryLevel(f, c, r, while, ops, next) ==
    CASE f.pc = "entry" -> Calls([f EXCEPT !.pc = "left"], next, c)
      [] f.pc = "left" -> BinaryLoop(f, r[1], c, while, ops, next)
      [] f.pc = "right" ->
            BinaryLoop(f, BinaryStmt(f.left, f.operator, r[1]), c, while, ops, next)

StepParseMultiplicativeExpression(f, c, r) ==
    BinaryLevel(f, c, r, {"Star", "Slash", "DoubleStar"},
                [Star |-> "Multiply", Slash |-> "Divide", Percent |-> "Modulus",
                 DoubleStar |-> "Exponent"],
                "parse_primary")

\* StepParseAdditiveExpression looping on the multiplicative operators too, its
\* operands parsed by parse_primary
StepParseAdditiveExpression_Flat(f, c, r) ==
    BinaryLevel(f, c, r, {"Plus", "Minus", "Star", "Slash", "DoubleStar"},
                [Plus |-> "Add", Minus |-> "Subtract", Star |-> "Multiply",
                 Slash |-> "Divide", DoubleStar |-> "Exponent"],
                "parse_primary")

StepParseAdditiveExpression(f, c, r) ==
    BinaryLevel(f, c, r, {"Plus", "Minus"},
                [Plus |-> "Add", Minus |-> "Subtract"],
                "parse_multiplicative_expression")

StepParseComparisionExpression(f, c, r) ==
    BinaryLevel(f, c, r,
                {"GreaterThan", "LessThan", "GreaterThanOrEqual", "LessThanOrEqual"},
                [GreaterThan |-> "GreaterThan", LessThan |-> "LessThan",
                 GreaterThanOrEqual |-> "GreaterThanOrEqual",
                 LessThanOrEqual |-> "LessThanOrEqual"],
                "parse_additive_expression")

StepParseLogicalExpression(f, c, r) ==
    BinaryLevel(f, c, r, {"And", "Or", "DoubleEquals", "NotEquals"},
                [And |-> "And", Or |-> "Or", DoubleEquals |-> "Equality",
                 NotEquals |-> "NotEquals"],
                "parse_comparision_expression")

StepParsePrimary(f, c, r) ==
    CASE f.pc = "entry" ->
            IF ~HasTok(c) THEN Panics(OptionUnwrapMsg, c + 1)
            ELSE LET t == TokAt(c)
                 IN CASE t.type = "Identifier" ->
                            IF ~HasTok(c + 1) THEN Panics(OptionUnwrapMsg, c + 1)
                            ELSE IF TokAt(c + 1) = LParen
                                 THEN Calls([fn |-> f.fn, pc |-> "call", v |-> t.value],
                                            "parse_function_arguments", c + 2)
                            ELSE IF TokAt(c + 1) = Equals
                                 THEN Calls([fn |-> f.fn, pc |-> "assign", v |-> t.value],
                                            "parse_expression", c + 2)
                            ELSE Returns(IdentifierStmt(t.value), c + 1)
                      [] t.type = "Integer" -> Returns(LiteralStmt("Int", t.value), c + 1)
                      [] t.type = "Float" -> Returns(LiteralStmt("Float", t.value), c + 1)
                      [] t.type = "StringLiteral" ->
                            Returns(LiteralStmt("String", t.value), c + 1)
                      [] t.type = "LParen" ->
                            Calls([f EXCEPT !.pc = "paren"], "parse_expression", c + 1)
                      [] t.type \in {"Indent", "Newline"} ->
                            Calls([f EXCEPT !.pc = "block"], "parse_block_statement", c + 1)
                      [] OTHER ->
                            Panics("Undefined Symbol encountered while parsing", c + 1)
      [] f.pc = "call" -> Returns(CallStmt(f.v, r), c)
      [] f.pc = "assign" -> Returns(AssignStmt(f.v, r[1]), c)
      [] f.pc = "paren" ->
            Expect(c, RParen, "Error: missing closing parenthesis", Returns(r[1], c + 1))
      [] f.pc = "block" -> Returns(r[1], c)

\* the innermost frame
Top == stack[Len(stack)]

\* the state after a step with outcome o
Apply(o) ==
    /\ current_token' = o.cur
    /\ stack' = CASE o.act = "call" ->
                        Append(SubSeq(stack, 1, Len(stack) - 1), o.frame) \o <<Frame(o.callee)>>
                  [] o.act = "continue" ->
                        Append(SubSeq(stack, 1, Len(stack) - 1), o.frame)
                  [] o.act = "return" -> SubSeq(stack, 1, Len(stack) - 1)
                  [] o.act = "panic" -> stack
    /\ ret' = IF o.act = "return" /\ Len(stack) > 1 THEN o.value ELSE <<>>
    /\ program' = IF o.act = "return" /\ Len(stack) = 1 THEN o.value ELSE program
    /\ phase' = CASE o.act = "panic" -> "panic"
                  [] o.act = "return" /\ Len(stack) = 1 -> "done"
                  [] OTHER -> phase
    /\ panic_msg' = IF o.act = "panic" THEN o.msg ELSE panic_msg
    /\ UNCHANGED <<lexvars, ptokens, clnvars>>

Running(fn) == phase = "parse" /\ stack # <<>> /\ Top.fn = fn

\* main: Parser::new(&tokens), then parser.parse() is called
ParserNew ==
    /\ phase = "tokenized"
    /\ ptokens' = tokens
    /\ current_token' = 0
    /\ stack' = <<Frame("parse")>>
    /\ phase' = "parse"
    /\ UNCHANGED <<lexvars, panic_msg, ret, program, clnvars>>

Parse == Running("parse") /\ Apply(StepParse(Top, current_token, ret))
ParseIfStatement ==
    Running("parse_if_statement") /\ Apply(StepParseIfStatement(Top, current_token, ret))
ParseBlockStatementBody ==
    /\ Running("parse_block_statement_body")
    /\ Apply(StepParseBlockStatementBody(Top, current_token, ret))
ParseFunctionDefinitionStatement ==
    /\ Running("parse_function_definition_statement")
    /\ Apply(StepParseFunctionDefinitionStatement(Top, current_token, ret))
ParseBlockStatement ==
    Running("parse_block_statement") /\ Apply(StepParseBlockStatement(Top, current_token, ret))
ParseStatement ==
    Running("parse_statement") /\ Apply(StepParseStatement(Top, current_token, ret))
ParseExpression ==
    Running("parse_expression") /\ Apply(StepParseExpression(Top, current_token, ret))
ParseFunctionArguments ==
    /\ Running("parse_function_arguments")
    /\ Apply(StepParseFunctionArguments(Top, current_token, ret))
ParseMultiplicativeExpression ==
    /\ Running("parse_multiplicative_expression")
    /\ Apply(StepParseMultiplicativeExpression(Top, current_token, ret))
ParseAdditiveExpression ==
    /\ Running("parse_additive_expression")
    /\ Apply(StepParseAdditiveExpression(Top, current_token, ret))
ParseComparisionExpression ==
    /\ Running("parse_comparision_expression")
    /\ Apply(StepParseComparisionExpression(Top, current_token, ret))
ParseLogicalExpression ==
    /\ Running("parse_logical_expression")
    /\ Apply(StepParseLogicalExpression(Top, current_token, ret))
ParsePrimary ==
    Running("parse_primary") /\ Apply(StepParsePrimary(Top, current_token, ret))

\* --------------------------------------------------------- clean_tokens
\* the tokens of the sequences given to clean_tokens
CleanAlphabet == {Newline, Indent, Dedent, IdentifierTok(<<"a">>), IdentifierTok(<<"b">>)}
CleanInputs == UNION {[1..n -> CleanAlphabet] : n \in 0..MaxToks}

\* the match of clean_tokens' loop on (prev_token, token): "skip" is a continue
\* (prev_token is not updated), "inc" and "dec" change indent_level without pushing
\* the token, "push" pushes it
CleanMatch(prev, token, level) ==
    CASE prev = <<Newline>> /\ token = Newline -> "skip"
      [] prev = <<Newline>> /\ token = Dedent /\ level = 0 -> "skip"
      [] prev = <<Dedent>> /\ token = Dedent /\ level = 0 -> "skip"
      [] prev = <<Indent>> -> "inc"
      [] prev = <<Dedent>> /\ level > 0 -> "dec"
      [] OTHER -> "push"

\* one iteration of clean_tokens' for loop
CleanTokens ==
    /\ phase = "clean"
    /\ clean_idx < Len(clean_in)
    /\ LET token == clean_in[clean_idx + 1]
           m == CleanMatch(prev_token, token, indent_level)
       IN /\ cleaned_tokens' = IF m = "push" THEN Append(cleaned_tokens, token)
                               ELSE cleaned_tokens
          /\ indent_level' = CASE m = "inc" -> indent_level + 1
                               [] m = "dec" -> indent_level - 1
                               [] OTHER -> indent_level
          /\ prev_token' = IF m = "skip" THEN prev_token ELSE <<token>>
    /\ clean_idx' = clean_idx + 1
    /\ UNCHANGED <<lexvars, phase, panic_msg, parvars, clean_in>>

\* the end of clean_tokens: cleaned_tokens is returned
CleanTokensReturn ==
    /\ phase = "clean"
    /\ clean_idx = Len(clean_in)
    /\ phase' = "cleaned"
    /\ UNCHANGED <<lexvars, panic_msg, parvars, clnvars>>

\* --------------------------------------------------------- specification
Init ==
    /\ input \in Inputs
    /\ pos = 0
    /\ tokens = <<>>
    /\ indent_stack = <<0>>
    /\ at_line_start = TRUE
    /\ phase = "tokenize"
    /\ panic_msg = ""
    /\ ptokens = <<>>
    /\ current_token = 0
    /\ stack = <<>>
    /\ ret = <<>>
    /\ program = <<>>
    /\ clean_in = <<>>
    /\ clean_idx = 0
    /\ cleaned_tokens = <<>>
    /\ prev_token = <<>>
    /\ indent_level = 0

Next ==
    \/ Tokenize
    \/ TokenizeReturn
    \/ ParserNew
    \/ Parse
    \/ ParseIfStatement
    \/ ParseBlockStatementBody
    \/ ParseFunctionDefinitionStatement
    \/ ParseBlockStatement
    \/ ParseStatement
    \/ ParseExpression
    \/ ParseFunctionArguments
    \/ ParseMultiplicativeExpression
    \/ ParseAdditiveExpression
    \/ ParseComparisionExpression
    \/ ParseLogicalExpression
    \/ ParsePrimary

Spec == Init /\ [][Next]_vars

\* a call of clean_tokens on any token sequence
InitClean ==
    /\ clean_in \in CleanInputs
    /\ clean_idx = 0
    /\ cleaned_tokens = <<>>
    /\ prev_token = <<>>
    /\ indent_level = 0
    /\ phase = "clean"
    /\ input = <<>>
    /\ pos = 0
    /\ tokens = <<>>
    /\ indent_stack = <<0>>
    /\ at_line_start = TRUE
    /\ panic_msg = ""
    /\ ptokens = <<>>
    /\ current_token = 0
    /\ stack = <<>>
    /\ ret = <<>>
    /\ program = <<>>

NextClean ==
    \/ CleanTokens
    \/ CleanTokensReturn

SpecClean == InitClean /\ [][NextClean]_vars

\* ------------------------------------------------- parse on any token sequence
\* the tokens of the sequences drawn exhaustively for parse
ParseAlphabet == {Newline, Indent, Dedent, EOF, LParen, RParen, Colon,
                  Tk("IfKeyword"), Tk("DefKeyword"), Tk("Plus"),
                  IdentifierTok(<<"a">>), TkV("Integer", <<"1">>)}
ShortTokens == UNION {{Append(t, EOF) : t \in [1..n -> ParseAlphabet]} : n \in 0..MaxParseToks}

\* the token sequences of programs with an if statement, function definitions and
\* calls: blocks closed by a Dedent and by EOF, blank lines, nested blocks
ProgramTokens == {
    <<Tk("IfKeyword"), LParen, IdentifierTok(<<"a">>), RParen, Colon, Newline, Indent,
      IdentifierTok(<<"b">>), Newline, Dedent, IdentifierTok(<<"c">>), EOF>>,
    <<Tk("IfKeyword"), LParen, IdentifierTok(<<"a">>), RParen, Colon, Newline, Indent,
      IdentifierTok(<<"b">>), Newline, Newline, IdentifierTok(<<"c">>), EOF>>,
    <<Tk("IfKeyword"), LParen, IdentifierTok(<<"a">>), RParen, Colon, Newline, Indent,
      Tk("IfKeyword"), LParen, IdentifierTok(<<"b">>), RParen, Colon, Newline, Indent,
      IdentifierTok(<<"c">>), Newline, Dedent, Dedent, IdentifierTok(<<"d">>), Newline, EOF>>,
    <<Tk("IfKeyword"), LParen, IdentifierTok(<<"a">>), RParen, Colon, Newline, Indent,
      IdentifierTok(<<"b">>), Newline, Dedent, EOF>>,
    <<Tk("DefKeyword"), IdentifierTok(<<"f">>), LParen, RParen, Colon, Newline, Indent,
      IdentifierTok(<<"x">>), EOF>>,
    <<Tk("DefKeyword"), IdentifierTok(<<"f">>), LParen, IdentifierTok(<<"p">>), Comma,
      IdentifierTok(<<"q">>), RParen, Colon, Newline, Indent, IdentifierTok(<<"x">>),
      Newline, Dedent, EOF>>,
    <<IdentifierTok(<<"f">>), LParen, TkV("Integer", <<"1">>), Comma,
      IdentifierTok(<<"a">>), RParen, EOF>>,
    <<IdentifierTok(<<"f">>), LParen, TkV("Integer", <<"1">>), IdentifierTok(<<"a">>), EOF>>,
    <<IdentifierTok(<<"a">>), Equals, LParen, TkV("Integer", <<"1">>), Tk("Plus"),
      TkV("Integer", <<"2">>), RParen, Tk("Star"), TkV("Integer", <<"3">>), EOF>>}

ParseInputs == ShortTokens \cup ProgramTokens

\* Parser::new(&tokens) on any token sequence that ends in EOF; parse is called
InitParse ==
    /\ ptokens \in ParseInputs
    /\ current_token = 0
    /\ stack = <<Frame("parse")>>
    /\ ret = <<>>
    /\ program = <<>>
    /\ phase = "parse"
    /\ panic_msg = ""
    /\ input = <<>>
    /\ pos = 0
    /\ tokens = <<>>
    /\ indent_stack = <<0>>
    /\ at_line_start = TRUE
    /\ clean_in = <<>>
    /\ clean_idx = 0
    /\ cleaned_tokens = <<>>
    /\ prev_token = <<>>
    /\ indent_level = 0

NextParse ==
    \/ Parse
    \/ ParseIfStatement
    \/ ParseBlockStatementBody
    \/ ParseFunctionDefinitionStatement
    \/ ParseBlockStatement
    \/ ParseStatement
    \/ ParseExpression
    \/ ParseFunctionArguments
    \/ ParseMultiplicativeExpression
    \/ ParseAdditiveExpression
    \/ ParseComparisionExpression
    \/ ParseLogicalExpression
    \/ ParsePrimary

\* parse runs on one thread without waiting for anything: while it has neither
\* returned nor panicked, its next step is taken
SpecParse == InitParse /\ [][NextParse]_vars /\ WF_vars(NextParse)

\* main, with the same progress of parse once it is called
SpecFair == Init /\ [][Next]_vars /\ WF_vars(NextParse)

\* ------------------------------------------------------------- properties
\* tokenize returned its token sequence to main
TokenizeReturned ==
    phase \in {"tokenized", "parse", "done"}
    \/ (phase = "panic" /\ panic_msg # ResultUnwrapMsg)

\* the number of tokens t in the sequence s
CountTok(s, t) == Cardinality({i \in 1..Len(s) : s[i] = t})

\* C1: tokenize is total: on every input text it returns a token sequence; it
\* never aborts, whatever digit and dot runs the text holds.
C1_TokenizeNeverAborts == ~(phase = "panic" /\ panic_msg = ResultUnwrapMsg)

RECURSIVE StatementsIn(_)
\* every statement of the statement sequence `body`, nested bodies included
StatementsIn(body) ==
    IF body = <<>> THEN <<>>
    ELSE LET st == Head(body)
         IN <<st>>
            \o (IF st.kind \in {"IfStatement", "FunctionDefinitionStatement"}
                THEN StatementsIn(st.body) ELSE <<>>)
            \o StatementsIn(Tail(body))

\* the line that encloses line i of block program p: the nearest line before it
\* with a smaller width (0: none, the line is at the top level)
Enclosing(p, i) ==
    LET above == {j \in 1..(i - 1) : p[j].width < p[i].width}
    IN IF above = {} THEN 0 ELSE CHOOSE j \in above : \A k \in above : k <= j

\* statement st is the one written on line i of block program p
IsLine(st, p, i) ==
    IF p[i].kind = "if"
    THEN st.kind = "IfStatement" /\ st.test = IdentifierStmt(<<Names[i]>>)
    ELSE st = IdentifierStmt(<<Names[i]>>)

\* the bodies of the construct written on line j (the Program's body for j = 0)
BodiesOf(p, j) ==
    IF j = 0 THEN {program[1].body}
    ELSE LET all == StatementsIn(program[1].body)
         IN {all[k].body : k \in {k \in 1..Len(all) : IsLine(all[k], p, j)}}

\* C2: when a line of a program with nested blocks dedents by two or more levels,
\* its statement is appended to the body of the construct that encloses it at its
\* own indentation level (the Program at width 0), never to a block just closed.
C2_DedentedLineInEnclosingBody ==
    phase = "done" =>
        \A p \in BlockPrograms :
            input \in {RenderBlock(p, 1), Chop(RenderBlock(p, 1))} =>
                \A i \in 2..Len(p) :
                    p[i - 1].width - p[i].width >= 2 =>
                        \E b \in BodiesOf(p, Enclosing(p, i)) :
                            \E k \in 1..Len(b) : IsLine(b[k], p, i)

\* C3: a function definition with n >= 0 comma-separated parameters yields a
\* FunctionDefinitionStatement whose params are exactly those n identifiers, in
\* declared order.
C3_ParamsAsDeclared ==
    phase = "done" =>
        \A n \in 0..MaxParams :
            input \in {RenderDef(n), Chop(RenderDef(n))} =>
                /\ Len(program[1].body) = 1
                /\ program[1].body[1].kind = "FunctionDefinitionStatement"
                /\ program[1].body[1].params = [i \in 1..n |-> Ident(<<ParamNames[i]>>)]

\* C4: the token sequence handed to Parser::new never holds two adjacent Newline
\* tokens (clean_tokens has run between scanning and parsing).
C4_NoAdjacentNewlinesToParser ==
    \A i \in 1..(Len(ptokens) - 1) : ~(ptokens[i] = Newline /\ ptokens[i + 1] = Newline)

\* a token clean_tokens has no reason to drop
IsKept(t) == t \notin {Newline, Dedent}

\* C5: clean_tokens only collapses Newlines and drops Dedents: the tokens that are
\* neither Newline nor Dedent appear in its output as in its input, in order.
C5_CleanKeepsOtherTokens ==
    phase = "cleaned" => SelectSeq(cleaned_tokens, IsKept) = SelectSeq(clean_in, IsKept)

\* the statement parse is to build for a line of a flat program
ExpectedStmt(k, i) ==
    CASE k = "ident" -> IdentifierStmt(<<Names[i]>>)
      [] k = "assign" -> AssignStmt(<<Names[i]>>, LiteralStmt("Int", <<"1">>))
      [] k = "sum" -> BinaryStmt(LiteralStmt("Int", <<"1">>), "Add",
                                 LiteralStmt("Int", <<"2">>))

\* C6: for N >= 1 expression or assignment statements at width 0, one per line,
\* every line ended by a newline, parse returns a Program whose body is exactly
\* those N statements in source order.
C6_FlatProgramParsed ==
    \A p \in FlatPrograms :
        input = RenderFlat(p, 1) =>
            /\ phase # "panic"
            /\ phase = "done" =>
                   program[1] = Program([i \in 1..Len(p) |-> ExpectedStmt(p[i], i)])

\* C7: an if statement whose token right after `if` is not `(` makes parse abort:
\* parse never returns a Program for such a token sequence.
C7_IfWithoutLParenAborts ==
    (Len(ptokens) >= 2 /\ ptokens[1] = Tk("IfKeyword") /\ ptokens[2] # LParen)
        => phase # "done"

\* parse_primary has parsed the expression enclosed by a `(` in primary position
\* and the token that follows it is not `)`
ParenNotClosed ==
    /\ Running("parse_primary")
    /\ Top.pc = "paren"
    /\ ~(HasTok(current_token) /\ TokAt(current_token) = RParen)

\* C8: a `(` in primary position whose enclosed expression is not followed by `)`
\* makes parse abort at once, no Program is returned, and an aborted parse takes
\* no further step.
C8_UnclosedParenAborts ==
    [][/\ ParenNotClosed => (phase' = "panic" /\ program' = <<>>)
       /\ phase = "panic" => (phase' = "panic" /\ program' = program)]_vars

\* the parse of "(1 + 2" was aborted for the missing `)`
C8_Witness ==
    /\ input = <<"(", "1", " ", "+", " ", "2">>
    /\ phase = "panic"
    /\ panic_msg = "Error: missing closing parenthesis"
    /\ program = <<>>

\* C9: the sequence tokenize returns holds exactly one EOF token, as its last
\* element.
C9_ExactlyOneTrailingEOF ==
    TokenizeReturned =>
        /\ tokens # <<>>
        /\ tokens[Len(tokens)] = EOF
        /\ CountTok(tokens, EOF) = 1

\* tokenize returned a sequence of several tokens
C9_Witness == phase = "tokenized" /\ Len(tokens) >= 4 /\ tokens[Len(tokens)] = EOF

\* C10: at every point of a lexing pass the Indent tokens emitted minus the Dedent
\* tokens emitted equal the entries of the indent stack above its seed 0.
C10_IndentBalance ==
    CountTok(tokens, Indent) - CountTok(tokens, Dedent) = Len(indent_stack) - 1

\* a pass that has closed two blocks on one line and is inside a block again
C10_Witness ==
    /\ phase = "tokenize"
    /\ CountTok(tokens, Dedent) >= 2
    /\ CountTok(tokens, Indent) >= 3
    /\ Len(indent_stack) = 2

\* C11: throughout a lexing pass the indent stack is non-empty, its bottom entry is
\* 0 and its entries increase strictly from bottom to top, whatever widths (a space
\* weighs 1, a tab 4) the lines of the text present.
C11_IndentStackIncreasing ==
    /\ Len(indent_stack) >= 1
    /\ indent_stack[1] = 0
    /\ \A i \in 1..(Len(indent_stack) - 1) : indent_stack[i] < indent_stack[i + 1]

\* a pass inside two nested levels, the inner one measured from a space and a tab
C11_Witness == phase = "tokenize" /\ indent_stack = <<0, 1, 5>>

\* the Operator of an operator text
OpName(op) ==
    CASE op = <<"+">> -> "Add" [] op = <<"-">> -> "Subtract"
      [] op = <<"*">> -> "Multiply" [] op = <<"/">> -> "Divide"
      [] op = <<"*", "*">> -> "Exponent"
      [] op = <<"<">> -> "LessThan" [] op = <<">">> -> "GreaterThan"
      [] op = <<"<", "=">> -> "LessThanOrEqual" [] op = <<">", "=">> -> "GreaterThanOrEqual"
      [] op = <<"a", "n", "d">> -> "And" [] op = <<"o", "r">> -> "Or"
      [] op = <<"=", "=">> -> "Equality" [] op = <<"!", "=">> -> "NotEquals"

\* the precedence level of an operator text, 1 the loosest
OpLevel(op) ==
    CASE op \in {<<"a", "n", "d">>, <<"o", "r">>, <<"=", "=">>, <<"!", "=">>} -> 1
      [] op \in {<<"<">>, <<">">>, <<"<", "=">>, <<">", "=">>} -> 2
      [] op \in {<<"+">>, <<"-">>} -> 3
      [] op \in {<<"*">>, <<"/">>, <<"*", "*">>} -> 4

\* the node of an operand text
Operand(t) == IF t[1] \in Digits THEN LiteralStmt("Int", t) ELSE IdentifierStmt(t)

\* the two shapes of a tree over e.a, e.op1, e.b, e.op2, e.c
RightNested(e) ==
    BinaryStmt(Operand(e.a), OpName(e.op1),
               BinaryStmt(Operand(e.b), OpName(e.op2), Operand(e.c)))
LeftNested(e) ==
    BinaryStmt(BinaryStmt(Operand(e.a), OpName(e.op1), Operand(e.b)),
               OpName(e.op2), Operand(e.c))

\* C12: multiplicative operators bind tighter than additive ones: for op1 in
\* {+, -} and op2 in {*, /, **}, parsing "a op1 b op2 c" returns the Program of
\* the one statement BinaryExpression(a, op1, BinaryExpression(b, op2, c)), never
\* BinaryExpression(BinaryExpression(a, op1, b), op2, c), and does not abort.
C12_MultiplicativeBindsTighter ==
    (phase \in {"done", "panic"} /\ input \in ExprTexts) =>
        \A e \in ExprPrograms :
            (OpLevel(e.op1) = 3 /\ OpLevel(e.op2) = 4 /\ input = RenderExpr(e)) =>
                /\ phase = "done"
                /\ program[1] = Program(<<RightNested(e)>>)
                /\ program[1] # Program(<<LeftNested(e)>>)

\* parse returned for "8 - 3 ** 2"
C12_Witness ==
    /\ input = <<"8", " ", "-", " ", "3", " ", "*", "*", " ", "2">>
    /\ phase = "done"
    /\ Len(program[1].body) = 1

\* C13: binary operators of one precedence level are left-associative: for
\* literal operands a, b, c and op1, op2 of one level, parsing "a op1 b op2 c"
\* returns the Program of the one statement
\* BinaryExpression(BinaryExpression(a, op1, b), op2, c), and does not abort.
C13_LeftAssociative ==
    (phase \in {"done", "panic"} /\ input \in ExprTexts) =>
        \A e \in ExprPrograms :
            (/\ OpLevel(e.op1) = OpLevel(e.op2)
             /\ \A t \in {e.a, e.b, e.c} : t[1] \in Digits
             /\ input = RenderExpr(e)) =>
                /\ phase = "done"
                /\ program[1] = Program(<<LeftNested(e)>>)

\* parse returned for "8 - 3 - 2"
C13_Witness ==
    /\ input = <<"8", " ", "-", " ", "3", " ", "-", " ", "2">>
    /\ phase = "done"
    /\ Len(program[1].body) = 1

\* an iteration of a loop of the innermost method that calls no other method: the
\* Newline arm of parse_block_statement_body, the parameter loop of
\* parse_function_definition_statement
LoopIteration ==
    /\ phase = "parse"
    /\ phase' = "parse"
    /\ Len(stack') = Len(stack)
    /\ Top.pc \in {"loop", "params"}
    /\ stack'[Len(stack')].pc = Top.pc

\* C14: parse is one linear pass that always ends, on every token sequence ending
\* in EOF: the cursor never moves backwards; an iteration of a loop strictly
\* advances it; calls never nest deeper than one descent from parse to
\* parse_primary (9 frames) plus one descent from parse_block_statement (8 frames)
\* per token consumed; and parse eventually returns a Program or aborts.
C14_ParseTerminates ==
    /\ [][current_token' >= current_token]_vars
    /\ [][LoopIteration => current_token' > current_token]_vars
    /\ [](Len(stack) <= 9 + 8 * current_token)
    /\ <>(phase = "panic" \/ (phase = "done" /\ program # <<>>))

\* parse returned after it closed two nested blocks on one line
C14_Witness ==
    /\ phase = "done"
    /\ Len(ptokens) = 21
    /\ current_token = 20
    /\ program # <<>>

\* parse is running or has ended, on the tokens tokenize returned
ParserStarted == phase \in {"parse", "done", "panic"} /\ ptokens # <<>>

\* C15: whenever parse returns a Program for a token sequence produced by
\* tokenize, the cursor is on the final EOF token, every token before it consumed;
\* a run whose cursor has moved past the EOF token never returns a Program and
\* ends in a panic.
C15_ReturnsOnFinalEOF ==
    /\ [](phase = "done" =>
             /\ program # <<>>
             /\ current_token = Len(ptokens) - 1
             /\ TokAt(current_token) = EOF)
    /\ []((ParserStarted /\ current_token >= Len(ptokens)) => phase # "done")
    /\ (ParserStarted /\ current_token >= Len(ptokens)) ~> (phase = "panic")

\* parse returned for a program with a block closed by a Dedent, the cursor on EOF
C15_Witness ==
    /\ phase = "done"
    /\ CountTok(ptokens, Dedent) >= 1
    /\ Len(ptokens) >= 8
    /\ current_token = Len(ptokens) - 1

====
